---- MODULE Spec2Model ----
\* Model of the LINQ-style iterator extensions of examples-rust/src/linq:
\* the LinqIteratorExtensions trait (the single and first_or families), the
\* Intersect adapter, and the len/count demonstration of count_tests.rs.
EXTENDS Integers, Sequences, FiniteSets, TLC

(* ------------------------------ bounds --------------------------------- *)
MaxLen == 3
MaxVal == 2
MaxIsectLen == 2
MaxNextCalls == 3
MaxLenCalls == 3

Values == 0 .. MaxVal

SeqsUpTo(n) == UNION { [1 .. k -> Values] : k \in 0 .. n }

(* --------------------------- Option<T> --------------------------------- *)
None == [tag |-> "None"]
Some(x) == [tag |-> "Some", val |-> x]

(* i32's Default::default() *)
DefaultValue == 0

(* ----------------------------- cursors --------------------------------- *)
(* A cursor is a finite prefix `items` followed, when rep = <<v>>, by an   *)
(* endless repetition of v (iter::repeat); with rep = <<>> it is finite.   *)
Cursors == [items : SeqsUpTo(MaxLen), rep : {<<>>} \cup { <<v>> : v \in Values }]

EmptyCursor == [items |-> <<>>, rep |-> <<>>]

VARIABLES cursor, last, prev,
          isect, isectIn, isectRet, isectOut, isectCalls,
          source, view, lenLog, countRet

vars == <<cursor, last, prev, isect, isectIn, isectRet, isectOut, isectCalls,
          source, view, lenLog, countRet>>

cursorVars == <<cursor, last, prev>>
isectVars == <<isect, isectIn, isectRet, isectOut, isectCalls>>
viewVars == <<source, view, lenLog, countRet>>

\* Variant: a cursor that is not fused; having returned None it comes back
\* to life and yields a further element.
IterNextRevives(c) ==
    IF c.items # <<>>
    THEN [ret |-> Some(Head(c.items)), it |-> [c EXCEPT !.items = Tail(c.items)]]
    ELSE IF c.rep # <<>>
         THEN [ret |-> Some(c.rep[1]), it |-> c]
         ELSE [ret |-> None, it |-> [c EXCEPT !.items = <<DefaultValue>>]]

(* Iterator::next on a cursor: the yielded Option and the advanced cursor. *)
IterNext(c) ==
    IF c.items # <<>>
    THEN [ret |-> Some(Head(c.items)), it |-> [c EXCEPT !.items = Tail(c.items)]]
    ELSE IF c.rep # <<>>
         THEN [ret |-> Some(c.rep[1]), it |-> c]
         ELSE [ret |-> None, it |-> c]

(* The sequence of elements a list of next() results has pulled. *)
Taken(rs) ==
    LET F[i \in 0 .. Len(rs)] ==
            IF i = 0 THEN <<>>
            ELSE IF rs[i].ret = None THEN F[i - 1] ELSE Append(F[i - 1], rs[i].ret.val)
    IN F[Len(rs)]

(* Outcome of one extension call: returned value, cursor afterwards, the   *)
(* next() results in call order, and the number of invocations of f.       *)
Outcome(ret, rs, fcalls) ==
    [ret |-> ret, it |-> rs[Len(rs)].it, adv |-> Len(rs), taken |-> Taken(rs),
     fcalls |-> fcalls, status |-> "returned"]

(* ------------------ LinqIteratorExtensions methods --------------------- *)

\* Variant: the second next() is not examined, the first element is returned.
SingleNoSecondCheck(c) ==
    LET r1 == IterNext(c)
        r2 == IterNext(r1.it)
    IN IF r1.ret = None THEN Outcome(None, <<r1>>, 0)
       ELSE Outcome(r1.ret, <<r1, r2>>, 0)

\* Variant: the cardinality is decided without pulling the second element.
SinglePeek(c) ==
    LET r1 == IterNext(c)
        r2 == IterNext(r1.it)
    IN IF r1.ret = None THEN Outcome(None, <<r1>>, 0)
       ELSE IF r2.ret = None THEN Outcome(r1.ret, <<r1>>, 0)
       ELSE Outcome(None, <<r1>>, 0)

\* fn single(&mut self) -> Option<Self::Item>
Single(c) ==
    LET r1 == IterNext(c)
        r2 == IterNext(r1.it)
    IN IF r1.ret = None THEN Outcome(None, <<r1>>, 0)
       ELSE IF r2.ret = None THEN Outcome(Some(r1.ret.val), <<r1, r2>>, 0)
       ELSE Outcome(None, <<r1, r2>>, 0)

\* Variant: the two arms of the inner match are swapped.
SingleOrSwapped(c, default) ==
    LET r1 == IterNext(c)
        r2 == IterNext(r1.it)
    IN IF r1.ret = None THEN Outcome(default, <<r1>>, 0)
       ELSE IF r2.ret = None THEN Outcome(default, <<r1, r2>>, 0)
       ELSE Outcome(r1.ret.val, <<r1, r2>>, 0)

\* fn single_or(&mut self, default: Self::Item) -> Self::Item
SingleOr(c, default) ==
    LET r1 == IterNext(c)
        r2 == IterNext(r1.it)
    IN IF r1.ret = None THEN Outcome(default, <<r1>>, 0)
       ELSE IF r2.ret = None THEN Outcome(r1.ret.val, <<r1, r2>>, 0)
       ELSE Outcome(default, <<r1, r2>>, 0)

\* Variant: `self.single_or(f())`, the closure is evaluated before the match.
SingleOrElseEager(c, fv) ==
    [SingleOr(c, fv) EXCEPT !.fcalls = 1]

\* fn single_or_else<F>(&mut self, f: F) -> Self::Item; the closure f is
\* modelled by the value fv it returns, each f() adds one to fcalls.
SingleOrElse(c, fv) ==
    LET r1 == IterNext(c)
        r2 == IterNext(r1.it)
    IN IF r1.ret = None THEN Outcome(fv, <<r1>>, 1)
       ELSE IF r2.ret = None THEN Outcome(r1.ret.val, <<r1, r2>>, 0)
       ELSE Outcome(fv, <<r1, r2>>, 1)

\* Variant: the next element is dropped and the default always returned.
FirstOrIgnoresElement(c, default) ==
    LET r1 == IterNext(c)
    IN Outcome(default, <<r1>>, 0)

\* fn first_or(&mut self, default: Self::Item) -> Self::Item
\*     self.next().unwrap_or(default)
FirstOr(c, default) ==
    LET r1 == IterNext(c)
    IN IF r1.ret = None THEN Outcome(default, <<r1>>, 0)
       ELSE Outcome(r1.ret.val, <<r1>>, 0)

\* Variant: the cursor is driven to exhaustion (as by Iterator::last) before
\* the first element is returned; on an endless cursor this never returns.
FirstOrElseDrain(c, fv) ==
    LET n == Len(c.items)
        rs == [i \in 1 .. n + 1 |->
                 IF i <= n THEN [ret |-> Some(c.items[i]), it |-> [c EXCEPT !.items = SubSeq(c.items, i + 1, n)]]
                 ELSE [ret |-> None, it |-> [c EXCEPT !.items = <<>>]]]
    IN IF c.rep # <<>>
       THEN [Outcome(fv, <<IterNext(c)>>, 0) EXCEPT !.status = "diverged"]
       ELSE IF n = 0 THEN Outcome(fv, rs, 1)
       ELSE Outcome(c.items[1], rs, 0)

\* fn first_or_else<F>(&mut self, f: F) -> Self::Item
\*     self.next().unwrap_or_else(f)
FirstOrElse(c, fv) ==
    LET r1 == IterNext(c)
    IN IF r1.ret = None THEN Outcome(fv, <<r1>>, 1)
       ELSE Outcome(r1.ret.val, <<r1>>, 0)

\* Variant: the first_or body pasted into single_or_default.
SingleOrDefaultAsFirst(c) ==
    FirstOr(c, DefaultValue)

\* fn single_or_default(&mut self) -> Self::Item
\*     self.single_or(Default::default())
SingleOrDefault(c) ==
    SingleOr(c, DefaultValue)

\* fn first_or_default(&mut self) -> Self::Item
\*     self.first_or(Default::default())
FirstOrDefault(c) ==
    FirstOr(c, DefaultValue)

(* --------------------- calls on the shared cursor ---------------------- *)
NoArg == <<>>

NoCall == [op |-> "none", arg |-> NoArg, ret |-> None, adv |-> 0, taken |-> <<>>,
           fcalls |-> 0, status |-> "returned", pre |-> EmptyCursor, post |-> EmptyCursor]

\* One extension call `cursor.op(arg)` on the caller's cursor: the cursor is
\* borrowed mutably for the call and is left where the call advanced it.
Call(op, arg, r) ==
    /\ last' = [op |-> op, arg |-> arg, ret |-> r.ret, adv |-> r.adv, taken |-> r.taken,
                fcalls |-> r.fcalls, status |-> r.status, pre |-> cursor, post |-> r.it]
    /\ prev' = last
    /\ cursor' = r.it
    /\ UNCHANGED <<isectVars, viewVars>>

CallSingle == Call("single", NoArg, Single(cursor))
CallSingleOr == \E d \in Values : Call("single_or", d, SingleOr(cursor, d))
CallSingleOrElse == \E fv \in Values : Call("single_or_else", fv, SingleOrElse(cursor, fv))
CallSingleOrDefault == Call("single_or_default", NoArg, SingleOrDefault(cursor))
CallFirstOr == \E d \in Values : Call("first_or", d, FirstOr(cursor, d))
CallFirstOrElse == \E fv \in Values : Call("first_or_else", fv, FirstOrElse(cursor, fv))
CallFirstOrDefault == Call("first_or_default", NoArg, FirstOrDefault(cursor))

IdleIsect == [a |-> EmptyCursor, b |-> EmptyCursor, items |-> {}]
IdleView == [pos |-> 0, live |-> FALSE]

IsectIdle ==
    /\ isect = IdleIsect
    /\ isectIn = [a |-> EmptyCursor, b |-> EmptyCursor]
    /\ isectRet = <<>>
    /\ isectOut = <<>>
    /\ isectCalls = 0

ViewIdle ==
    /\ source = <<>>
    /\ view = IdleView
    /\ lenLog = <<>>
    /\ countRet = <<>>

CursorIdle ==
    /\ cursor = EmptyCursor
    /\ last = NoCall
    /\ prev = NoCall

Init ==
    /\ cursor \in Cursors
    /\ last = NoCall
    /\ prev = NoCall
    /\ IsectIdle
    /\ ViewIdle

Next ==
    \/ CallSingle
    \/ CallSingleOr
    \/ CallSingleOrElse
    \/ CallSingleOrDefault
    \/ CallFirstOr
    \/ CallFirstOrElse
    \/ CallFirstOrDefault

Spec == Init /\ [][Next]_vars

(* ------------------------ Intersect adapter ---------------------------- *)
IsectInputs == { c \in Cursors : Len(c.items) <= MaxIsectLen }

Range(q) == { q[i] : i \in 1 .. Len(q) }

\* fn intersect<U>(self, other: U) -> Intersect<Self, U::IntoIter>
\*     Intersect { a: self, b: other.into_iter(), items: HashSet::new() }
Intersect(a, b) == [a |-> a, b |-> b, items |-> {}]

\* Variant: the traversal the commented-out lines sketch.  On the first call
\* b is collected into items; then a is advanced to its next element found
\* in items, which is taken out of items so that repeats are dropped.
IntersectNextFiltering(st) ==
    LET its == IF st.b.items # <<>> THEN st.items \cup Range(st.b.items) ELSE st.items
        st1 == [st EXCEPT !.items = its, !.b = [st.b EXCEPT !.items = <<>>]]
        hits == { i \in 1 .. Len(st.a.items) : st.a.items[i] \in its }
    IN IF hits = {}
       THEN [ret |-> None, st |-> [st1 EXCEPT !.a = [st.a EXCEPT !.items = <<>>]]]
       ELSE LET i == CHOOSE j \in hits : \A h \in hits : j <= h
                x == st.a.items[i]
            IN [ret |-> Some(x),
                st |-> [st1 EXCEPT !.a = [st.a EXCEPT !.items = SubSeq(st.a.items, i + 1, Len(st.a.items))], !.items = its \ {x}]]

\* impl Iterator for Intersect: fn next(&mut self) -> Option<A::Item> { None }
IntersectNext(st) == [ret |-> None, st |-> st]

\* One call of next() on the adapter.
CallIntersectNext ==
    /\ isectCalls < MaxNextCalls
    /\ LET r == IntersectNext(isect)
       IN /\ isect' = r.st
          /\ isectRet' = r.ret
          /\ isectOut' = IF r.ret = None THEN isectOut ELSE Append(isectOut, r.ret.val)
    /\ isectCalls' = isectCalls + 1
    /\ UNCHANGED <<isectIn, cursorVars, viewVars>>

InitIntersect ==
    /\ \E a \in IsectInputs, b \in IsectInputs :
          /\ isectIn = [a |-> a, b |-> b]
          /\ isect = Intersect(a, b)
    /\ isectRet = <<>>
    /\ isectOut = <<>>
    /\ isectCalls = 0
    /\ CursorIdle
    /\ ViewIdle

NextIntersect == CallIntersectNext

SpecIntersect == InitIntersect /\ [][NextIntersect]_vars

(* ---------------- len and count on a slice iterator -------------------- *)
\* Variant: the length is obtained by a consuming tally, as count() does:
\* the view is driven to its end.
SliceIterLenByCounting(src, v) ==
    [ret |-> Len(src) - v.pos, view |-> [v EXCEPT !.pos = Len(src)]]

\* i.len() on `let i = source.iter()`: takes the view by shared reference.
SliceIterLen(src, v) ==
    [ret |-> Len(src) - v.pos, view |-> v]

\* source.iter().filter(|&&x| x > t).count(): takes the iterator by value.
FilterCount(src, v, t) ==
    [ret |-> Cardinality({ i \in v.pos + 1 .. Len(src) : src[i] > t }),
     view |-> [pos |-> Len(src), live |-> FALSE]]

CallLen ==
    /\ view.live
    /\ Len(lenLog) < MaxLenCalls
    /\ LET r == SliceIterLen(source, view)
       IN /\ lenLog' = Append(lenLog, r.ret)
          /\ view' = r.view
    /\ UNCHANGED <<source, countRet, cursorVars, isectVars>>

CallCount ==
    /\ view.live
    /\ \E t \in Values :
          LET r == FilterCount(source, view, t)
          IN /\ countRet' = <<r.ret>>
             /\ view' = r.view
    /\ UNCHANGED <<source, lenLog, cursorVars, isectVars>>

InitView ==
    /\ source \in SeqsUpTo(MaxLen)
    /\ view = [pos |-> 0, live |-> TRUE]
    /\ lenLog = <<>>
    /\ countRet = <<>>
    /\ CursorIdle
    /\ IsectIdle

NextView == CallLen \/ CallCount

SpecView == InitView /\ [][NextView]_vars

(* ------------------- vocabulary of the properties ---------------------- *)
\* The cursor yields exactly n elements / at least n elements.
YieldsExactly(c, n) == c.rep = <<>> /\ Len(c.items) = n
YieldsAtLeast(c, n) == c.rep # <<>> \/ Len(c.items) >= n

\* The i-th element the cursor yields (i within what it yields).
Elem(c, i) == IF i <= Len(c.items) THEN c.items[i] ELSE c.rep[1]

Min(a, b) == IF a <= b THEN a ELSE b

\* How many of its first k elements the cursor can yield.
Available(c, k) == IF c.rep # <<>> THEN k ELSE Min(Len(c.items), k)

\* The cursor with its first m elements removed.
Drop(c, m) == [c EXCEPT !.items = SubSeq(c.items, Min(m, Len(c.items)) + 1, Len(c.items))]

SingleFamily == {"single", "single_or", "single_or_else", "single_or_default"}
FirstFamily == {"first_or", "first_or_else", "first_or_default"}

\* C1: single returns Some(x) when the cursor yields exactly one element x,
\* and None when it yields no element or two or more elements.
C1_SingleContract ==
    last.op = "single" =>
        IF YieldsExactly(last.pre, 1)
        THEN last.ret = Some(Elem(last.pre, 1))
        ELSE last.ret = None

C1_Witness ==
    /\ last.op = "single" /\ YieldsExactly(last.pre, 1) /\ last.ret = Some(last.pre.items[1])
    /\ prev.op = "single" /\ YieldsAtLeast(prev.pre, 2) /\ prev.ret = None

\* C2: single_or(d) returns x when the cursor yields exactly one element x,
\* and d when it yields no element or two or more elements.
C2_SingleOrContract ==
    last.op = "single_or" =>
        IF YieldsExactly(last.pre, 1)
        THEN last.ret = Elem(last.pre, 1)
        ELSE last.ret = last.arg

C2_Witness ==
    /\ last.op = "single_or" /\ last.pre = [items |-> <<0, 1>>, rep |-> <<>>]
    /\ last.arg = 2 /\ last.ret = 2

\* C3: first_or(d) returns the first element whenever the cursor yields at
\* least one element, whatever d and however many elements follow, and d
\* when the cursor yields no element.
C3_FirstOrContract ==
    last.op = "first_or" =>
        IF YieldsAtLeast(last.pre, 1)
        THEN last.ret = Elem(last.pre, 1)
        ELSE last.ret = last.arg

C3_Witness ==
    /\ last.op = "first_or" /\ Len(last.pre.items) >= 2
    /\ last.arg # last.pre.items[1] /\ last.ret = last.pre.items[1]

\* C4: single_or_else(f) and first_or_else(f) invoke f zero times and return
\* the cursor's element when a qualifying element exists (exactly one for
\* single_or_else, at least one for first_or_else); otherwise they invoke f
\* exactly once and return its value.  f is never invoked more than once.
C4_LazyFallback ==
    /\ last.fcalls <= 1
    /\ last.op = "single_or_else" =>
          IF YieldsExactly(last.pre, 1)
          THEN last.fcalls = 0 /\ last.ret = Elem(last.pre, 1)
          ELSE last.fcalls = 1 /\ last.ret = last.arg
    /\ last.op = "first_or_else" =>
          IF YieldsAtLeast(last.pre, 1)
          THEN last.fcalls = 0 /\ last.ret = Elem(last.pre, 1)
          ELSE last.fcalls = 1 /\ last.ret = last.arg

C4_Witness ==
    /\ prev.op = "single_or_else" /\ YieldsExactly(prev.pre, 1) /\ prev.fcalls = 0
    /\ last.op = "first_or_else" /\ YieldsExactly(last.pre, 0) /\ last.fcalls = 1

\* C5: single_or_default returns what single_or(0) returns and
\* first_or_default returns what first_or(0) returns, 0 being the integer
\* default: first_or_default over [] is 0 and over [1,2,..] is 1;
\* single_or_default over [] and over [0,1] is 0 and over [x] is x.
C5_DefaultEquivalence ==
    /\ last.op = "single_or_default" =>
          /\ last.ret = SingleOr(last.pre, 0).ret
          /\ last.post = SingleOr(last.pre, 0).it
          /\ YieldsExactly(last.pre, 0) => last.ret = 0
          /\ last.pre = [items |-> <<0, 1>>, rep |-> <<>>] => last.ret = 0
          /\ YieldsExactly(last.pre, 1) => last.ret = last.pre.items[1]
    /\ last.op = "first_or_default" =>
          /\ last.ret = FirstOr(last.pre, 0).ret
          /\ last.post = FirstOr(last.pre, 0).it
          /\ YieldsExactly(last.pre, 0) => last.ret = 0
          /\ (Len(last.pre.items) >= 2 /\ SubSeq(last.pre.items, 1, 2) = <<1, 2>>) => last.ret = 1

C5_Witness ==
    /\ prev.op = "first_or_default" /\ prev.pre = [items |-> <<1, 2, 2>>, rep |-> <<>>] /\ prev.ret = 1
    /\ last.op = "single_or_default" /\ last.pre.items = <<2, 2>> /\ last.ret = 0

\* C6: every extension operation returns a value (no panic, no endless
\* loop) on finite and on endless cursors, after at most two advances of
\* the cursor, and after at most one for the first_or family.
C6_TotalBoundedAdvances ==
    last.op # "none" =>
        /\ last.status = "returned"
        /\ last.adv >= 1
        /\ last.adv <= 2
        /\ last.op \in FirstFamily => last.adv = 1

C6_Witness ==
    /\ last.op = "first_or_else" /\ last.pre.rep # <<>> /\ last.status = "returned" /\ last.adv = 1
    /\ prev.op = "single" /\ prev.pre.rep # <<>> /\ prev.status = "returned" /\ prev.adv = 2

\* C10: a call consumes exactly min(n, k) elements from the front of a
\* cursor holding n elements (k = 2 for the single family, k = 1 for the
\* first_or family) and leaves the rest on the cursor, in order, for the
\* next call: on [a,b,c] single returns None and a second single returns
\* Some(c).
C10_Consumes ==
    /\ last.op # "none" =>
          LET k == IF last.op \in SingleFamily THEN 2 ELSE 1
              m == Available(last.pre, k)
          IN /\ last.taken = [i \in 1 .. m |-> Elem(last.pre, i)]
             /\ last.post = Drop(last.pre, m)
             /\ cursor = last.post
    /\ prev.op # "none" => last.pre = prev.post
    /\ (prev.op = "single" /\ last.op = "single" /\ YieldsExactly(prev.pre, 3)) =>
          prev.ret = None /\ last.ret = Some(prev.pre.items[3])

C10_Witness ==
    /\ prev.op = "single" /\ last.op = "single" /\ YieldsExactly(prev.pre, 3)
    /\ prev.taken = SubSeq(prev.pre.items, 1, 2)
    /\ cursor = EmptyCursor /\ last.ret = Some(prev.pre.items[3])

\* What intersect is documented to yield: the elements of a found in b,
\* in a's order, each at most once.
IntersectOf(a, b) ==
    LET F[i \in 0 .. Len(a)] ==
            IF i = 0 THEN <<>>
            ELSE IF a[i] \in Range(b) /\ a[i] \notin Range(F[i - 1])
                 THEN Append(F[i - 1], a[i])
                 ELSE F[i - 1]
    IN F[Len(a)]

\* C7: intersect(a, b) yields exactly the elements of a that are present in
\* the set of b's elements, each at most once, in a's relative order (stated
\* for finite a and b, once the adapter has signalled exhaustion).
C7_IntersectYieldsCommonElements ==
    (isectRet = None /\ isectIn.a.rep = <<>> /\ isectIn.b.rep = <<>>) =>
        isectOut = IntersectOf(isectIn.a.items, isectIn.b.items)

\* C8: every length query on the view returns the number of elements of the
\* underlying data, the same on every call, and leaves the view's position
\* and the data as they were.
C8_LenRepeatable ==
    [][lenLog' # lenLog =>
         /\ Len(lenLog') = Len(lenLog) + 1
         /\ \A i \in 1 .. Len(lenLog') : lenLog'[i] = Len(source)
         /\ view' = view
         /\ source' = source]_vars

C8_Witness ==
    /\ Len(source) = MaxLen /\ view.live /\ view.pos = 0
    /\ Len(lenLog) >= 2 /\ lenLog[1] = MaxLen /\ lenLog[2] = MaxLen

\* C9: every next() on the Intersect adapter returns None, advances neither
\* a nor b, leaves items empty and yields nothing; once None has been
\* returned every later next() returns None.
C9_StubAlwaysExhausted ==
    [][/\ isectCalls' # isectCalls =>
            /\ isectRet' = None
            /\ isect'.a = isectIn.a /\ isect'.b = isectIn.b
            /\ isect'.items = {}
            /\ isectOut' = <<>>
       /\ isectRet = None => isectRet' = None]_vars

C9_Witness ==
    /\ isectCalls >= 2 /\ isectRet = None
    /\ isectIn.a = isectIn.b /\ isectIn.a.items # <<>>
    /\ isect.a = isectIn.a /\ isectOut = <<>>

\* The call saw the cursor signal exhaustion (a next() returned None).
SawExhaustion(call) == call.op # "none" /\ call.adv > Len(call.taken)

\* What each operation returns on a zero-length cursor.
OnEmptyCursor(op, arg) ==
    CASE op = "single" -> Single(EmptyCursor)
      [] op = "single_or" -> SingleOr(EmptyCursor, arg)
      [] op = "single_or_else" -> SingleOrElse(EmptyCursor, arg)
      [] op = "single_or_default" -> SingleOrDefault(EmptyCursor)
      [] op = "first_or" -> FirstOr(EmptyCursor, arg)
      [] op = "first_or_else" -> FirstOrElse(EmptyCursor, arg)
      [] op = "first_or_default" -> FirstOrDefault(EmptyCursor)

\* C11: once a call has driven the cursor to exhaustion, every operation
\* called on it returns what it returns on a zero-length cursor (single gives
\* None, single_or(d) and first_or(d) give d, single_or_else(f) and
\* first_or_else(f) give f() with f called once, the or_default methods give
\* 0), pulls no element, and leaves the cursor exhausted, so the same holds
\* for the call after it.
C11_ExhaustedBehavesAsEmpty ==
    SawExhaustion(prev) =>
        /\ last.ret = OnEmptyCursor(last.op, last.arg).ret
        /\ last.fcalls = OnEmptyCursor(last.op, last.arg).fcalls
        /\ last.op = "single" => last.ret = None
        /\ last.op \in {"single_or", "first_or"} => last.ret = last.arg
        /\ last.op \in {"single_or_else", "first_or_else"} =>
              last.ret = last.arg /\ last.fcalls = 1
        /\ last.op \in {"single_or_default", "first_or_default"} => last.ret = 0
        /\ last.taken = <<>>
        /\ SawExhaustion(last)
        /\ YieldsExactly(cursor, 0)

C11_Witness ==
    /\ prev.op = "single" /\ YieldsExactly(prev.pre, 1) /\ prev.ret = Some(prev.pre.items[1])
    /\ SawExhaustion(prev)
    /\ last.op = "first_or_else" /\ last.arg = 2 /\ last.ret = 2 /\ last.fcalls = 1
    /\ cursor = EmptyCursor

====
